---- MODULE Spec2Model ----
(***************************************************************************)
(* Model of the VoiceForge text pipeline (src/gradio_app): the             *)
(* deterministic cleaning engine (text_cleaner.py), the chunk orchestrator *)
(* (llm_service.py) and the document processor (text_processor.py).        *)
(*                                                                         *)
(* Text is a sequence of characters; a character is a one-character        *)
(* string, and the non-ASCII characters of the source are written as named *)
(* tokens ("LDQUO" for U+201C, "NBSP" for U+00A0, ...).                    *)
(***************************************************************************)
EXTENDS Integers, Sequences, FiniteSets, TLC

(***************************************************************************)
(* Character classes (Python str / re semantics).                          *)
(***************************************************************************)
Lower == {"a","b","c","d","e","f","g","h","i","j","k","l","m",
          "n","o","p","q","r","s","t","u","v","w","x","y","z"}

Upper == {"A","B","C","D","E","F","G","H","I","J","K","L","M",
          "N","O","P","Q","R","S","T","U","V","W","X","Y","Z"}

Letter == Lower \cup Upper

Digit == {"0","1","2","3","4","5","6","7","8","9"}

\* \w of the re module
WordCh == Letter \cup Digit \cup {"_"}

\* [ivxlcdmIVXLCDM]
Roman == {"i","v","x","l","c","d","m","I","V","X","L","C","D","M"}

\* [ \t]
Blank == {" ", "\t"}

\* \s of the re module and the characters str.strip() removes
WS == {" ", "\t", "\n", "\r", "NBSP"}

\* [\s,.;:-]
RefSep == WS \cup {",", ".", ";", ":", "-"}

\* [.!?]
Terminal == {".", "!", "?"}

ToLower(c) ==
    CASE c = "A" -> "a" [] c = "B" -> "b" [] c = "C" -> "c" [] c = "D" -> "d"
      [] c = "E" -> "e" [] c = "F" -> "f" [] c = "G" -> "g" [] c = "H" -> "h"
      [] c = "I" -> "i" [] c = "J" -> "j" [] c = "K" -> "k" [] c = "L" -> "l"
      [] c = "M" -> "m" [] c = "N" -> "n" [] c = "O" -> "o" [] c = "P" -> "p"
      [] c = "Q" -> "q" [] c = "R" -> "r" [] c = "S" -> "s" [] c = "T" -> "t"
      [] c = "U" -> "u" [] c = "V" -> "v" [] c = "W" -> "w" [] c = "X" -> "x"
      [] c = "Y" -> "y" [] c = "Z" -> "z" [] OTHER -> c

LowerStr(t) == [i \in 1..Len(t) |-> ToLower(t[i])]

(***************************************************************************)
(* Generic sequence helpers.                                               *)
(***************************************************************************)
Max(a, b) == IF a >= b THEN a ELSE b

\* t[a..b], empty when a > b
Slice(t, a, b) == IF a > b THEN <<>> ELSE SubSeq(t, a, b)

\* the last index k >= i - 1 such that t[i..k] lies wholly in class S
RECURSIVE RunEnd(_, _, _)
RunEnd(t, i, S) ==
    IF i <= Len(t) /\ t[i] \in S THEN RunEnd(t, i + 1, S) ELSE i - 1

\* the last index k >= i - 1 such that t[i..k] has no character of class S
RECURSIVE RunEndNot(_, _, _)
RunEndNot(t, i, S) ==
    IF i <= Len(t) /\ t[i] \notin S THEN RunEndNot(t, i + 1, S) ELSE i - 1

\* the element of a one-element set.  Only({F(v) : v \in {x}}) is F(x), with
\* v a local name for x whose value is computed once: the form the scans
\* below take for the position a match ends at and for the text one pass
\* hands to the next
Only(S) == CHOOSE v \in S : TRUE

\* str.strip()
RECURSIVE LStrip(_)
LStrip(t) == IF t # <<>> /\ Head(t) \in WS THEN LStrip(Tail(t)) ELSE t

RECURSIVE RStrip(_)
RStrip(t) ==
    IF t # <<>> /\ t[Len(t)] \in WS THEN RStrip(SubSeq(t, 1, Len(t) - 1)) ELSE t

Strip(t) == Only({RStrip(v) : v \in {LStrip(t)}})

\* sep.join(parts)
RECURSIVE Join(_, _)
Join(parts, sep) ==
    IF parts = <<>> THEN <<>>
    ELSE IF Len(parts) = 1 THEN parts[1]
    ELSE parts[1] \o sep \o Join(Tail(parts), sep)

\* does the literal lit (compared case-insensitively) start at t[i]
LitAt(t, i, lit) ==
    /\ i + Len(lit) - 1 <= Len(t)
    /\ \A k \in 1..Len(lit) : ToLower(t[i + k - 1]) = lit[k]

\* \b at the gap before t[i] (i = Len(t) + 1 is the end of the text)
IsWordAt(t, i) == i >= 1 /\ i <= Len(t) /\ t[i] \in WordCh

Boundary(t, i) == IsWordAt(t, i - 1) # IsWordAt(t, i)

(***************************************************************************)
(* text_cleaner.py: the deterministic cleaning steps.                      *)
(***************************************************************************)
SmartDouble == {"LDQUO", "RDQUO", "BDQUO", "LAQUO", "RAQUO", "LSAQUO", "RSAQUO"}

SmartSingle == {"LSQUO", "RSQUO", "SBQUO", "HRSQUO"}

SmartDash == {"NDASH", "MDASH", "MINUS", "HYPHEN", "NBHYPHEN", "FIGDASH",
              "BULLET", "MIDDOT"}

\* SMART_REPLACEMENTS.get(char, char)
SMART_REPLACEMENTS(c) ==
    IF c \in SmartDouble THEN <<"\"">>
    ELSE IF c \in SmartSingle THEN <<"'">>
    ELSE IF c \in SmartDash THEN <<"-">>
    ELSE IF c = "HELLIP" THEN <<".", ".", ".">>
    ELSE <<c>>

RECURSIVE SmartSub(_)
SmartSub(t) ==
    IF t = <<>> THEN <<>> ELSE SMART_REPLACEMENTS(Head(t)) \o SmartSub(Tail(t))

\* NBSP_RE.sub(" ", text)
NbspSub(t) == [i \in 1..Len(t) |-> IF t[i] = "NBSP" THEN " " ELSE t[i]]

\* _replace_smart_punctuation
ReplaceSmartPunctuation(t) == Only({NbspSub(v) : v \in {SmartSub(t)}})

\* [^\s<>()]
UrlStop == WS \cup {"<", ">", "(", ")"}

\* length of the (?:https?://|www\.) prefix matched at t[i], 0 when URL_RE
\* does not match at i
UrlPrefixLen(t, i) ==
    LET ok(n) == i + n <= Len(t) /\ t[i + n] \notin UrlStop
    IN  IF ~Boundary(t, i) THEN 0
        ELSE IF LitAt(t, i, <<"h","t","t","p","s",":","/","/">>) /\ ok(8) THEN 8
        ELSE IF LitAt(t, i, <<"h","t","t","p",":","/","/">>) /\ ok(7) THEN 7
        ELSE IF LitAt(t, i, <<"w","w","w",".">>) /\ ok(4) THEN 4
        ELSE 0

RECURSIVE UrlSub(_, _)
UrlSub(t, i) ==
    IF i > Len(t) THEN <<>>
    ELSE IF UrlPrefixLen(t, i) > 0
         THEN Only({<<" ">> \o UrlSub(t, k + 1)
                    : k \in {RunEndNot(t, i + UrlPrefixLen(t, i), UrlStop)}})
         ELSE <<t[i]>> \o UrlSub(t, i + 1)

\* URL_RE.sub(" ", text)
RemoveUrls(t) == UrlSub(t, 1)

\* index of the closing delimiter of the reference group that
\* BRACKET_REFERENCE_RE / PAREN_FOOTNOTE_RE matches at t[i], 0 when none
RefMatchEnd(t, i, open, close) ==
    IF t[i] # open THEN 0
    ELSE LET k == RunEnd(t, i + 1, Digit \cup Roman \cup RefSep)
             inner == Strip(Slice(t, i + 1, k))
         IN  IF /\ k + 1 <= Len(t)
                /\ t[k + 1] = close
                /\ inner # <<>>
                /\ inner[1] \in Digit \cup Roman
                /\ inner[Len(inner)] \in Digit \cup Roman
             THEN k + 1
             ELSE 0

RECURSIVE RefSub(_, _, _, _)
RefSub(t, i, open, close) ==
    IF i > Len(t) THEN <<>>
    ELSE Only({IF j > 0 THEN <<" ">> \o RefSub(t, j + 1, open, close)
               ELSE <<t[i]>> \o RefSub(t, i + 1, open, close)
               : j \in {RefMatchEnd(t, i, open, close)}})

\* BRACKET_REFERENCE_RE.sub(" ", text)
BracketRefSub(t) == RefSub(t, 1, "[", "]")

\* PAREN_FOOTNOTE_RE.sub(" ", text)
ParenRefSub(t) == RefSub(t, 1, "(", ")")

\* _remove_references
RemoveReferences(t) == Only({ParenRefSub(v) : v \in {BracketRefSub(t)}})

\* end of the match of (?<=[A-Za-z])-\s*\n\s*(?=[A-Za-z]) at t[i], 0 when none
HyphenBreakEnd(t, i) ==
    IF t[i] # "-" \/ i = 1 THEN 0
    ELSE LET k == RunEnd(t, i + 1, WS)
         IN  IF /\ t[i - 1] \in Letter
                /\ \E j \in (i + 1)..k : t[j] = "\n"
                /\ k + 1 <= Len(t)
                /\ t[k + 1] \in Letter
             THEN k
             ELSE 0

RECURSIVE HyphenSub(_, _)
HyphenSub(t, i) ==
    IF i > Len(t) THEN <<>>
    ELSE Only({IF k > 0 THEN HyphenSub(t, k + 1)
               ELSE <<t[i]>> \o HyphenSub(t, i + 1)
               : k \in {HyphenBreakEnd(t, i)}})

\* (?<=[A-Za-z])\n(?=[A-Za-z]) -> " "
BareBreakSub(t) ==
    [i \in 1..Len(t) |->
        IF /\ t[i] = "\n"
           /\ i > 1 /\ t[i - 1] \in Letter
           /\ i < Len(t) /\ t[i + 1] \in Letter
        THEN " " ELSE t[i]]

\* _fix_hyphenation_artifacts
FixHyphenationArtifacts(t) == Only({BareBreakSub(v) : v \in {HyphenSub(t, 1)}})

RECURSIVE CamelSub(_, _)
CamelSub(t, i) ==
    IF i > Len(t) THEN <<>>
    ELSE IF /\ i + 2 <= Len(t)
            /\ t[i] \in Lower /\ t[i + 1] \in Upper /\ t[i + 2] \in Lower
         THEN Only({<<t[i], " ">> \o Slice(t, i + 1, k) \o CamelSub(t, k + 1)
                    : k \in {RunEnd(t, i + 2, Lower)}})
         ELSE <<t[i]>> \o CamelSub(t, i + 1)

\* CAMEL_CASE_SPLIT_RE.sub(r"\1 \2", text)
SplitCamelCase(t) == CamelSub(t, 1)

\* the fragments _find_lexicon_split returns, <<>> for None
RECURSIVE FindLexiconSplit(_, _, _)
RECURSIVE TrySplitAt(_, _, _, _)
TrySplitAt(original, lexicon, depth, i) ==
    IF i < 3 THEN <<>>
    ELSE LET lower == LowerStr(original)
             left_lower == Slice(lower, 1, i)
             right_lower == Slice(lower, i + 1, Len(lower))
             left_original == Slice(original, 1, i)
             right_original == Slice(original, i + 1, Len(original))
         IN  IF left_lower \notin lexicon
             THEN TrySplitAt(original, lexicon, depth, i - 1)
             ELSE IF right_lower \in lexicon
             THEN <<left_original, right_original>>
             ELSE LET deeper == FindLexiconSplit(right_original, lexicon, depth + 1)
                  IN  IF deeper # <<>> THEN <<left_original>> \o deeper
                      ELSE TrySplitAt(original, lexicon, depth, i - 1)

\* variant: one more level of recursion
FindLexiconSplitDeeper(original, lexicon, depth) ==
    IF LowerStr(original) \in lexicon \/ depth > 4 \/ Len(original) < 6
    THEN <<>>
    ELSE TrySplitAt(original, lexicon, depth, Len(original) - 3)

FindLexiconSplit(original, lexicon, depth) ==
    IF LowerStr(original) \in lexicon \/ depth > 3 \/ Len(original) < 6
    THEN <<>>
    ELSE TrySplitAt(original, lexicon, depth, Len(original) - 3)

\* variant: words of every length are split
MergedWordReplAnyLength(word, lexicon) ==
    IF LowerStr(word) \in lexicon THEN word
    ELSE LET split == FindLexiconSplit(word, lexicon, 0)
         IN  IF split # <<>> THEN Join(split, <<" ">>) ELSE word

\* repl of _split_merged_words: the replacement text of one matched word
MergedWordRepl(word, lexicon) ==
    IF Len(word) > 30 THEN word
    ELSE IF LowerStr(word) \in lexicon THEN word
    ELSE LET split == FindLexiconSplit(word, lexicon, 0)
         IN  IF split # <<>> THEN Join(split, <<" ">>) ELSE word

\* end of the match of MERGED_WORD_RE (\b[a-zA-Z]{6,}\b) at t[i], 0 when none
MergedWordEnd(t, i) ==
    IF ~(t[i] \in Letter /\ Boundary(t, i)) THEN 0
    ELSE LET k == RunEnd(t, i, Letter)
         IN  IF k - i + 1 >= 6 /\ Boundary(t, k + 1) THEN k ELSE 0

RECURSIVE MergedSub(_, _, _)
MergedSub(t, i, lexicon) ==
    IF i > Len(t) THEN <<>>
    ELSE Only({IF k > 0
               THEN MergedWordRepl(Slice(t, i, k), lexicon)
                    \o MergedSub(t, k + 1, lexicon)
               ELSE <<t[i]>> \o MergedSub(t, i + 1, lexicon)
               : k \in {MergedWordEnd(t, i)}})

\* _split_merged_words
SplitMergedWords(t, lexicon) == MergedSub(t, 1, lexicon)

\* LEADING_SPACE_NEWLINE_RE.sub("\n", text): [ \t]+\n
RECURSIVE LeadingSub(_, _)
LeadingSub(t, i) ==
    IF i > Len(t) THEN <<>>
    ELSE Only({IF k >= i /\ k + 1 <= Len(t) /\ t[k + 1] = "\n"
               THEN <<"\n">> \o LeadingSub(t, k + 2)
               ELSE <<t[i]>> \o LeadingSub(t, i + 1)
               : k \in {RunEnd(t, i, Blank)}})

\* TRAILING_SPACE_NEWLINE_RE.sub("\n", text): \n[ \t]+
RECURSIVE TrailingSub(_, _)
TrailingSub(t, i) ==
    IF i > Len(t) THEN <<>>
    ELSE IF t[i] = "\n"
         THEN Only({<<"\n">> \o TrailingSub(t, k + 1)
                    : k \in {RunEnd(t, i + 1, Blank)}})
         ELSE <<t[i]>> \o TrailingSub(t, i + 1)

\* sub(rep, text) for a pattern [S]{n,}: runs of at least n characters of S
RECURSIVE RunSub(_, _, _, _, _)
RunSub(t, i, S, n, rep) ==
    IF i > Len(t) THEN <<>>
    ELSE Only({IF k - i + 1 >= n THEN rep \o RunSub(t, k + 1, S, n, rep)
               ELSE <<t[i]>> \o RunSub(t, i + 1, S, n, rep)
               : k \in {RunEnd(t, i, S)}})

\* TRAILING_SPACE_NEWLINE_RE.sub("\n", text)
TrailingSpaceSub(t) == TrailingSub(t, 1)

\* MULTI_SPACE_RE.sub(" ", text): [ \t]{2,}
MultiSpaceSub(t) == RunSub(t, 1, Blank, 2, <<" ">>)

\* EXCESS_NEWLINES_RE.sub("\n\n", text): \n{3,}
ExcessNewlinesSub(t) == RunSub(t, 1, {"\n"}, 3, <<"\n", "\n">>)

\* _normalize_spacing
NormalizeSpacing(t) ==
    Only({Strip(d) : d \in
      {ExcessNewlinesSub(c) : c \in
        {MultiSpaceSub(b) : b \in
          {TrailingSpaceSub(a) : a \in {LeadingSub(t, 1)}}}}})

\* one guarded step of apply_deterministic_cleaning: r is [text, applied]
\* variant: a step that records its name whenever its option is set
CleanStepRecordsEnabled(r, enabled, out, name) ==
    IF enabled
    THEN [text |-> out, applied |-> Append(r.applied, name)]
    ELSE r

CleanStep(r, enabled, out, name) ==
    IF enabled /\ out # r.text
    THEN [text |-> out, applied |-> Append(r.applied, name)]
    ELSE r

\* the six guarded steps of apply_deterministic_cleaning, in their order
StepSmartQuotes(r, options) ==
    Only({CleanStep(v, options.replace_smart_quotes,
                    ReplaceSmartPunctuation(v.text), "replaceSmartQuotes")
          : v \in {r}})

StepUrls(r, options) ==
    Only({CleanStep(v, options.remove_urls, RemoveUrls(v.text), "removeUrls")
          : v \in {r}})

\* variant: reference removal in either phase
StepFootnotesAnyPhase(r, options, phase) ==
    Only({CleanStep(v, options.remove_footnotes,
                    RemoveReferences(v.text), "removeFootnotes")
          : v \in {r}})

StepFootnotes(r, options, phase) ==
    Only({CleanStep(v, options.remove_footnotes /\ phase = "pre",
                    RemoveReferences(v.text), "removeFootnotes")
          : v \in {r}})

StepHyphenation(r, options) ==
    Only({CleanStep(v, options.fix_hyphenation,
                    FixHyphenationArtifacts(v.text), "fixHyphenation")
          : v \in {r}})

StepCamelCase(r, options) ==
    Only({CleanStep(v, options.fix_ocr_errors, SplitCamelCase(v.text),
                    "splitCamelCase")
          : v \in {r}})

StepMergedWords(r, options, lexicon) ==
    Only({CleanStep(v, options.fix_ocr_errors,
                    SplitMergedWords(v.text, lexicon), "splitMergedWords")
          : v \in {r}})

\* the closing _normalize_spacing and the DeterministicCleaningResult
StepSpacing(r) ==
    Only({[text |-> NormalizeSpacing(v.text), applied |-> v.applied] : v \in {r}})

\* apply_deterministic_cleaning(input_text, options, phase=phase), with the
\* set _load_lexicon() returns
ApplyDeterministicCleaning(input_text, options, phase, lexicon) ==
    StepSpacing(
      StepMergedWords(
        StepCamelCase(
          StepHyphenation(
            StepFootnotes(
              StepUrls(
                StepSmartQuotes([text |-> input_text, applied |-> <<>>], options),
                options),
              options, phase),
            options),
          options),
        options, lexicon))

(***************************************************************************)
(* text_processor.py: the chunker.                                         *)
(***************************************************************************)
\* re.findall(r"[^.!?]+(?:[.!?]+|$)", text)
RECURSIVE FindSentences(_, _)
FindSentences(t, i) ==
    IF i > Len(t) THEN <<>>
    ELSE IF t[i] \in Terminal THEN FindSentences(t, i + 1)
    ELSE Only({<<Slice(t, i, m)>> \o FindSentences(t, m + 1)
               : m \in {RunEnd(t, RunEndNot(t, i, Terminal) + 1, Terminal)}})

\* [s.strip() for s in sentences if s.strip()]
RECURSIVE StripNonEmpty(_)
StripNonEmpty(ss) ==
    IF ss = <<>> THEN <<>>
    ELSE Only({(IF h # <<>> THEN <<h>> ELSE <<>>) \o StripNonEmpty(Tail(ss))
               : h \in {Strip(Head(ss))}})

\* the for loop of split_into_chunks and the flush of the last group
RECURSIVE GroupSentences(_, _, _)
GroupSentences(sentences, current, batch_size) ==
    IF sentences = <<>>
    THEN IF current # <<>> THEN <<Join(current, <<" ">>)>> ELSE <<>>
    ELSE Only({IF Len(cur) >= batch_size
               THEN <<Join(cur, <<" ">>)>>
                    \o GroupSentences(Tail(sentences), <<>>, batch_size)
               ELSE GroupSentences(Tail(sentences), cur, batch_size)
               : cur \in {Append(current, Head(sentences))}})

NonEmptyText(t) == t # <<>>

\* re.findall(...) or [text], stripped and filtered (lines 22-23)
Sentences(t) ==
    Only({StripNonEmpty(IF found # <<>> THEN found ELSE <<t>>)
          : found \in {FindSentences(t, 1)}})

\* TextProcessor.split_into_chunks
split_into_chunks(t, batch_size) ==
    Only({SelectSeq(GroupSentences(sentences, <<>>, batch_size), NonEmptyText)
          : sentences \in {Sentences(t)}})

(***************************************************************************)
(* llm_service.py: token estimate, prompts, validation.                    *)
(***************************************************************************)
\* variant: no floor of one token
EstimateTokensNoFloor(n, m) == IF n = 0 THEN 0 ELSE m \div 4

\* estimate_tokens applied to a text of n characters, m of them left by strip()
EstimateTokensLen(n, m) == IF n = 0 THEN 0 ELSE Max(1, m \div 4)

estimate_tokens(t) == EstimateTokensLen(Len(t), Len(Strip(t)))

\* the task lines _build_cleaning_prompt lists, as their lengths
CleaningTaskLens(options) ==
    (IF options.replace_smart_quotes THEN <<50>> ELSE <<>>)
    \o (IF options.fix_ocr_errors THEN <<56>> ELSE <<>>)
    \o (IF options.fix_hyphenation THEN <<54>> ELSE <<>>)
    \o (IF options.correct_spelling THEN <<46>> ELSE <<>>)
    \o (IF options.remove_urls THEN <<46>> ELSE <<>>)
    \o (IF options.remove_footnotes THEN <<61>> ELSE <<>>)
    \o (IF options.add_punctuation THEN <<68>> ELSE <<>>)

RECURSIVE SumSeq(_)
SumSeq(q) == IF q = <<>> THEN 0 ELSE Head(q) + SumSeq(Tail(q))

\* _build_cleaning_prompt with custom_instructions = None.  A prompt is kept
\* as its kind, the text it embeds and its length in characters (the fixed
\* wording is 126 + 165 + 17 characters, the tasks are joined by "\n").
BuildCleaningPrompt(t, options) ==
    LET tasks == CleaningTaskLens(options)
    IN  [kind |-> "cleaning",
         text |-> t,
         len  |-> 308 + SumSeq(tasks) + Max(0, Len(tasks) - 1) + Len(t)]

\* _build_speaker_prompt with custom_instructions = None, no narrator
\* identity and no extended examples: six parts joined by "\n"
BuildSpeakerPrompt(t, config) ==
    LET instructions == IF config.label_format = "bracket" THEN 133 ELSE 91
        narrator_rule == IF config.include_narrator THEN 91 ELSE 64
        attribution_rule ==
            IF config.mode = "format" THEN 90
            ELSE IF config.narrator_attribution = "remove" THEN 90
            ELSE IF config.narrator_attribution = "verbatim" THEN 102
            ELSE 92
    IN  [kind |-> "speaker",
         text |-> t,
         len  |-> 63 + 1 + instructions + 1 + narrator_rule + 1 + 37 + 1
                  + attribution_rule + 1 + 19 + Len(t)]

\* estimate_tokens(prompt): both prompts begin and end with a non-blank
\* character, so strip() leaves them whole
PromptTokens(prompt) == EstimateTokensLen(prompt.len, prompt.len)

\* variant: an answer that repeats the original is rejected
ValidateOutputRejectsEcho(original, generated) ==
    IF Strip(generated) = <<>> THEN FALSE
    ELSE IF Strip(generated) = Strip(original) THEN FALSE
    ELSE TRUE

\* LLMService.validate_output
validate_output(original, generated) ==
    IF Strip(generated) = <<>> THEN FALSE
    ELSE IF Strip(generated) = Strip(original) THEN TRUE
    ELSE TRUE

\* An Optional[...] object is the empty sequence for None, else the
\* one-element sequence of the object
None == <<>>

Some(x) == <<x>>

\* an Optional[str] that is None
NoToken == "None"

\* options.speaker_config and options.speaker_config.is_enabled()
SpeakerEnabled(speaker_config) ==
    speaker_config # None /\ speaker_config[1].mode # "none"

(***************************************************************************)
(* Bounds and the inputs the model draws from.                             *)
(***************************************************************************)
MaxSentences == 2

MaxBatch == 2

\* the two sentences documents are made of: the first carries a bracketed
\* reference that the pre phase removes, the second is already clean
SentencePool == << <<"A", "[", "1", "]", ".">>, <<"b", "!">> >>

\* the document of n sentences, taken in turn from the pool
Document(n) ==
    Join([k \in 1..n |-> SentencePool[((k - 1) % Len(SentencePool)) + 1]], <<" ">>)

Documents == {Document(n) : n \in 0..MaxSentences}

\* CleaningOptions() of models.py
DefaultCleaningOptions ==
    [replace_smart_quotes |-> TRUE, fix_ocr_errors |-> TRUE,
     correct_spelling |-> FALSE, remove_urls |-> TRUE,
     remove_footnotes |-> TRUE, add_punctuation |-> TRUE,
     fix_hyphenation |-> FALSE]

\* SpeakerConfig(mode=...) of models.py, the other fields at their defaults
SpeakerConfigOf(mode) ==
    [mode |-> mode, label_format |-> "speaker", include_narrator |-> FALSE,
     narrator_attribution |-> "remove"]

SpeakerConfigs ==
    {None, Some(SpeakerConfigOf("none")), Some(SpeakerConfigOf("format"))}

\* the configurations of the document runs: every batch size, with and
\* without the second, speaker-formatting stage
DocConfigs ==
    [batch_size : 1..MaxBatch,
     cleaning_options : {DefaultCleaningOptions},
     speaker_config : {None, Some(SpeakerConfigOf("format"))},
     model_source : {"api", "ollama"},
     single_pass : {FALSE},
     llm_cleaning_disabled : {FALSE}]

\* the configurations of the one-chunk runs: every prompting strategy
ChunkConfigs ==
    [batch_size : {1},
     cleaning_options : {DefaultCleaningOptions},
     speaker_config : SpeakerConfigs,
     model_source : {"api", "ollama"},
     single_pass : BOOLEAN,
     llm_cleaning_disabled : BOOLEAN]

\* what the backend may answer to one generation request: blanks only (the
\* hosted API path strips them to the empty text, the Ollama path does not),
\* or a text (which the post phase still splits at the capital)
RawResponses == {<<" ">>, <<"a", "B", "c">>}

\* the words the lexicon holds once loaded (a part of FALLBACK_WORDS)
LoadedLexicon ==
    {<<"t","h","e">>, <<"a","n","d">>, <<"n","o","t">>, <<"o","n","e">>,
     <<"p","a","r","t">>, <<"s","o","m","e">>, <<"t","h","i","n","g">>}

\* os.environ, as far as _update_client_from_env reads it: with and without
\* a token for the hosted API (the local daemon reads none)
Environs(model_source) ==
    {[HUGGINGFACE_API_TOKEN |-> NoToken, HF_TOKEN |-> NoToken]}
    \cup (IF model_source = "api"
          THEN {[HUGGINGFACE_API_TOKEN |-> "hf_A", HF_TOKEN |-> NoToken]}
          ELSE {})

\* what an attached progress callback may do when called
NoCallback == "none"

Callbacks == {NoCallback, "returns", "raises"}

(***************************************************************************)
(* State.                                                                  *)
(***************************************************************************)
VARIABLES
    text,                \* process_text argument
    config,              \* process_text argument (ProcessingConfig)
    on_progress,         \* process_text argument
    environ,             \* os.environ
    svc_token,           \* LLMService._token
    svc_client,          \* LLMService._client
    cached_lexicon,      \* text_cleaner._cached_lexicon
    pc,                  \* where process_text stands
    chunks,              \* locals of process_text ...
    idx,
    retry_count,
    success,
    processed_chunk,
    processed,
    applied_steps,
    logs,
    total_input_tokens,
    total_output_tokens,
    total_cost,
    progress,            \* the last ProcessingProgress built
    summary,             \* the ProcessingSummary returned
    call,                \* locals of the running process_chunk call
    attempts,            \* history: outcome of each process_chunk call of this chunk
    gen_log,             \* history: generation calls of the running/last process_chunk call
    reports,             \* history: (input, output) token pairs of returned calls
    n_returned,          \* history: number of process_chunk calls that returned
    final_results,       \* history: result fixed for each chunk, by chunk index
    twin,                \* the same run with no callback attached (see Obs)
    cleaning,            \* locals of a running apply_deterministic_cleaning call
    probe,               \* one function application: its arguments and result
    loaders              \* the threads calling _load_lexicon, and their locals

vars == <<text, config, on_progress, environ, svc_token, svc_client,
          cached_lexicon, pc, chunks, idx, retry_count, success,
          processed_chunk, processed, applied_steps, logs,
          total_input_tokens, total_output_tokens, total_cost, progress,
          summary, call, attempts, gen_log, reports, n_returned,
          final_results, twin, cleaning, probe, loaders>>

argVars == <<text, config, on_progress, environ>>

totalVars == <<total_input_tokens, total_output_tokens, total_cost>>

fnVars == <<cleaning, probe, loaders>>

\* the locals and histories of process_text
bodyVars == <<chunks, idx, retry_count, success, processed_chunk, processed,
              applied_steps, logs, totalVars, progress, summary, call,
              attempts, gen_log, reports, n_returned, final_results>>

svcVars == <<svc_token, svc_client>>


NoUsage == [input_tokens |-> 0, output_tokens |-> 0, input_cost |-> 0,
            output_cost |-> 0]

NoCall == [text |-> <<>>, applied_steps |-> <<>>, generated |-> <<>>,
           usage |-> NoUsage]

\* what a caller of process_text can observe of a run
Obs ==
    [pc |-> pc, idx |-> idx, retry_count |-> retry_count,
     processed |-> processed, applied_steps |-> applied_steps, logs |-> logs,
     total_input_tokens |-> total_input_tokens,
     total_output_tokens |-> total_output_tokens,
     total_cost |-> total_cost, summary |-> summary,
     attempts |-> attempts, gen_log |-> gen_log]

\* the twin run takes the same step: no statement but line 115 reads
\* on_progress
TwinFollows == twin' = Obs'

(***************************************************************************)
(* llm_service.py: the service's credential and the generation call.       *)
(***************************************************************************)
\* os.getenv("HUGGINGFACE_API_TOKEN") or os.getenv("HF_TOKEN") or None
ResolveToken(env) ==
    IF env.HUGGINGFACE_API_TOKEN \notin {NoToken, ""} THEN env.HUGGINGFACE_API_TOKEN
    ELSE IF env.HF_TOKEN \notin {NoToken, ""} THEN env.HF_TOKEN
    ELSE NoToken

\* InferenceClient(token=token) if token else None
ClientFor(token) == IF token # NoToken THEN Some([token |-> token]) ELSE None

\* variant: the pair is kept as it is, whatever the environment holds
UpdateClientKeepsPair(env, old_token, old_client) ==
    [token |-> old_token, client |-> old_client]

\* _update_client_from_env: the (_token, _client) pair it leaves
UpdateClientFromEnv(env, old_token, old_client) ==
    LET token == ResolveToken(env)
    IN  IF token # old_token
        THEN [token |-> token, client |-> ClientFor(token)]
        ELSE [token |-> old_token, client |-> old_client]

\* the guard of the raise at the head of process_chunk
CredentialMissing(model_source, client) == model_source = "api" /\ client = None

\* _generate_text on a backend that answers raw: _generate_with_hf strips the
\* response, _generate_with_ollama returns it as it is
GenerateText(prompt, model_source, raw) ==
    LET t == IF model_source = "ollama" THEN raw ELSE Strip(raw)
    IN  [text |-> t,
         usage |-> [input_tokens |-> PromptTokens(prompt),
                    output_tokens |-> estimate_tokens(t),
                    input_cost |-> 0, output_cost |-> 0]]

\* the prompt of the first generation call of process_chunk
FirstPrompt(t, cfg) ==
    IF SpeakerEnabled(cfg.speaker_config) /\ cfg.single_pass
    THEN BuildSpeakerPrompt(t, cfg.speaker_config[1])
    ELSE BuildCleaningPrompt(t, cfg.cleaning_options)

\* the step name recorded after the first generation call
FirstStepName(cfg) ==
    IF SpeakerEnabled(cfg.speaker_config)
    THEN IF cfg.single_pass THEN "llmSpeakerSinglePass" ELSE "llmCleaning"
    ELSE "llmCleaning"

\* variant: the speaker stage ignores single_pass
NeedsSecondStageAlways(cfg) == SpeakerEnabled(cfg.speaker_config)

\* is the second, speaker-formatting generation call made
NeedsSecondStage(cfg) == SpeakerEnabled(cfg.speaker_config) /\ ~cfg.single_pass

\* the prompt of the second generation call
SecondPrompt(frame, cfg) ==
    BuildSpeakerPrompt(frame.generated, cfg.speaker_config[1])

\* the usage dict of lines 249-254
SumUsage(u1, u2) ==
    [input_tokens |-> u1.input_tokens + u2.input_tokens,
     output_tokens |-> u1.output_tokens + u2.output_tokens,
     input_cost |-> u1.input_cost + u2.input_cost,
     output_cost |-> u1.output_cost + u2.output_cost]

\* _load_lexicon: the cache if it is populated, else a fresh load
LoadLexicon(cache) == IF cache # None THEN cache[1] ELSE LoadedLexicon

\* _cached_lexicon after one apply_deterministic_cleaning call
CacheAfterCleaning(cache, options) ==
    IF options.fix_ocr_errors THEN Some(LoadLexicon(cache)) ELSE cache

(***************************************************************************)
(* text_processor.py: process_text.                                        *)
(***************************************************************************)
\* variant: a while condition that admits a third attempt
WhileCondThreeAttempts(r, s) == r <= 2 /\ ~s

\* the while condition of line 59
WhileCond(r, s) == r < 2 /\ ~s

\* where control goes when the while condition is tested
LoopTest(r, s) == IF WhileCond(r, s) THEN "call" ELSE "append"

\* variant: a retry limit the except branch reaches one failure too late
RetriesExhaustedLate(r) == r >= 3

\* the retry limit test of line 84
RetriesExhausted(r) == r >= 2

\* the text line 85 falls back to
FallbackText(chunk, current) == chunk

\* variant: the total is overwritten by the last report instead of summed
AccumulateLast(total, n) == n

\* total += n of lines 76-78
Accumulate(total, n) == total + n

\* variant: an empty result is dropped instead of appended
AppendResultNonEmpty(done, result) ==
    IF result = <<>> THEN done ELSE Append(done, result)

\* processed.append(processed_chunk)
AppendResult(done, result) == Append(done, result)

\* variant: the results are joined by a single line break
JoinResultsOneBreak(done) == Join(done, <<"\n">>)

\* "\n\n".join(processed)
JoinResults(done) == Join(done, <<"\n", "\n">>)

ErrorLine(i, exc) == [kind |-> "error", chunk |-> i + 1, detail |-> exc]

FallbackLine(i) ==
    [kind |-> "fallback", chunk |-> i + 1,
     detail |-> "falling back to original text after errors."]

CredentialError == "RuntimeError: HuggingFace API token not configured."

BackendError == "RuntimeError: generation request failed"

\* the chunk the for loop is at
Chunk == chunks[idx + 1]

\* mark the outcome of the running process_chunk call
Outcome(o) == [attempts EXCEPT ![Len(attempts)] = o]

\* variant: the usage of the generation calls made before the exception is
\* added to the totals
HandleExceptionCountsUsage(exc) ==
    /\ retry_count' = retry_count + 1
    /\ IF RetriesExhausted(retry_count + 1)
       THEN /\ processed_chunk' = FallbackText(Chunk, processed_chunk)
            /\ logs' = Append(Append(logs, ErrorLine(idx, exc)), FallbackLine(idx))
            /\ pc' = "append"
       ELSE /\ processed_chunk' = processed_chunk
            /\ logs' = Append(logs, ErrorLine(idx, exc))
            /\ pc' = LoopTest(retry_count + 1, success)
    /\ call' = NoCall
    /\ total_input_tokens' = total_input_tokens + call.usage.input_tokens
    /\ UNCHANGED <<success, applied_steps, total_output_tokens, total_cost,
                   reports, n_returned>>

\* lines 81-88: an exception raised inside the try block
HandleException(exc) ==
    /\ retry_count' = retry_count + 1
    /\ IF RetriesExhausted(retry_count + 1)
       THEN /\ processed_chunk' = FallbackText(Chunk, processed_chunk)
            /\ logs' = Append(Append(logs, ErrorLine(idx, exc)), FallbackLine(idx))
            /\ pc' = "append"
       ELSE /\ processed_chunk' = processed_chunk
            /\ logs' = Append(logs, ErrorLine(idx, exc))
            /\ pc' = LoopTest(retry_count + 1, success)
    /\ call' = NoCall
    /\ UNCHANGED <<success, applied_steps, totalVars, reports, n_returned>>

MaxLoaders == 2

\* no thread is inside _load_lexicon; stores counts the assignments to
\* _cached_lexicon made so far
NoLoaders ==
    [at |-> [t \in 1..MaxLoaders |-> "idle"],
     lexicon |-> [t \in 1..MaxLoaders |-> None],
     stores |-> 0]

\* no cleaning call and no function application under observation
NoCleaning == [at |-> "idle"]

NoProbe == [fn |-> "none"]

\* the service as LLMService() constructs it (lines 52-55), the lexicon not
\* loaded, and the locals and histories of a process_text call not yet made
Fresh ==
    /\ svc_token = ResolveToken(environ)
    /\ svc_client = ClientFor(ResolveToken(environ))
    /\ cached_lexicon = None
    /\ loaders = NoLoaders
    /\ chunks = <<>>
    /\ idx = -1
    /\ retry_count = 0
    /\ success = FALSE
    /\ processed_chunk = <<>>
    /\ processed = <<>>
    /\ applied_steps = <<>>
    /\ logs = <<>>
    /\ total_input_tokens = 0
    /\ total_output_tokens = 0
    /\ total_cost = 0
    /\ progress = None
    /\ summary = None
    /\ call = NoCall
    /\ attempts = <<>>
    /\ gen_log = <<>>
    /\ reports = {}
    /\ n_returned = 0
    /\ final_results = <<>>

\* the state when process_text is entered, the service constructed
InitWith(documents, configs) ==
    /\ text \in documents
    /\ config \in configs
    /\ on_progress \in Callbacks
    /\ environ \in Environs(config.model_source)
    /\ pc = "start"
    /\ Fresh
    /\ twin = Obs
    /\ cleaning = NoCleaning
    /\ probe = NoProbe

Init == InitWith(Documents, DocConfigs)

ChunkInit == InitWith({Document(1)}, ChunkConfigs)

\* lines 41-51
ProcessTextStart ==
    /\ pc = "start"
    /\ chunks' = split_into_chunks(text, config.batch_size)
    /\ pc' = "for"
    /\ UNCHANGED <<fnVars, argVars, svcVars, cached_lexicon, idx, retry_count, success,
                   processed_chunk, processed, applied_steps, logs, totalVars,
                   progress, summary, call, attempts, gen_log, reports,
                   n_returned, final_results>>
    /\ TwinFollows

\* lines 53-57: the for loop takes the next chunk
BeginChunk ==
    /\ pc = "for"
    /\ idx + 1 < Len(chunks)
    /\ idx' = idx + 1
    /\ retry_count' = 0
    /\ success' = FALSE
    /\ processed_chunk' = chunks[idx + 2]
    /\ attempts' = <<>>
    /\ gen_log' = <<>>
    /\ pc' = LoopTest(0, FALSE)
    /\ UNCHANGED <<fnVars, argVars, svcVars, cached_lexicon, chunks, processed,
                   applied_steps, logs, totalVars, progress, summary, call,
                   reports, n_returned, final_results>>
    /\ TwinFollows

\* process_chunk lines 214-216: text and applied_steps after the pre phase
PreCleaned(clean_result) ==
    [NoCall EXCEPT !.text = clean_result.text,
                   !.applied_steps = clean_result.applied]

\* lines 60-74 and process_chunk lines 204-216: the call, the credential
\* check and the pre phase
ProcessChunkEnter ==
    /\ pc = "call"
    /\ LET upd == UpdateClientFromEnv(environ, svc_token, svc_client)
       IN  /\ svc_token' = upd.token
           /\ svc_client' = upd.client
           /\ gen_log' = <<>>
           /\ IF CredentialMissing(config.model_source, upd.client)
              THEN /\ HandleException(CredentialError)
                   /\ attempts' = Append(attempts, "raised")
                   /\ UNCHANGED cached_lexicon
              ELSE /\ IF ~config.llm_cleaning_disabled
                      THEN /\ \E clean_result \in
                                  {ApplyDeterministicCleaning(
                                       Chunk, config.cleaning_options, "pre",
                                       LoadLexicon(cached_lexicon))} :
                                  call' = PreCleaned(clean_result)
                           /\ cached_lexicon' = CacheAfterCleaning(
                                  cached_lexicon, config.cleaning_options)
                      ELSE /\ call' = [NoCall EXCEPT !.text = Chunk]
                           /\ UNCHANGED cached_lexicon
                   /\ attempts' = Append(attempts, "running")
                   /\ pc' = "gen1"
                   /\ UNCHANGED <<retry_count, success, processed_chunk,
                                  applied_steps, logs, totalVars, reports,
                                  n_returned>>
    /\ UNCHANGED <<fnVars, argVars, chunks, idx, processed, progress, summary,
                   final_results>>
    /\ TwinFollows

\* history entry of one generation call: the prompt sent and the text the
\* backend answered (None when it raised)
Sent(prompt, answer) == [prompt |-> prompt, answer |-> answer]

\* process_chunk lines 218-236: the first generation call; the backend
\* raises or answers
Generate1 ==
    /\ pc = "gen1"
    /\ LET prompt == FirstPrompt(call.text, config)
       IN  \/ /\ HandleException(BackendError)
              /\ attempts' = Outcome("raised")
              /\ gen_log' = Append(gen_log, Sent(prompt, None))
           \/ \E raw \in RawResponses :
                    LET g == GenerateText(prompt, config.model_source, raw)
                    IN  /\ gen_log' = Append(gen_log, Sent(prompt, Some(g.text)))
                        /\ call' = [call EXCEPT
                                      !.generated = g.text,
                                      !.usage = g.usage,
                                      !.applied_steps =
                                          Append(@, FirstStepName(config))]
                        /\ pc' = IF NeedsSecondStage(config) THEN "gen2" ELSE "post"
                        /\ UNCHANGED <<retry_count, success, processed_chunk,
                                       applied_steps, logs, totalVars, reports,
                                       n_returned, attempts>>
    /\ UNCHANGED <<fnVars, argVars, svcVars, cached_lexicon, chunks, idx, processed,
                   progress, summary, final_results>>
    /\ TwinFollows

\* process_chunk lines 238-255: the speaker-formatting generation call
Generate2 ==
    /\ pc = "gen2"
    /\ LET speaker_prompt == SecondPrompt(call, config)
       IN  \/ /\ HandleException(BackendError)
              /\ attempts' = Outcome("raised")
              /\ gen_log' = Append(gen_log, Sent(speaker_prompt, None))
           \/ \E raw \in RawResponses :
                    LET g == GenerateText(speaker_prompt, config.model_source, raw)
                    IN  /\ gen_log' = Append(gen_log, Sent(speaker_prompt, Some(g.text)))
                        /\ call' = [call EXCEPT
                                      !.generated = g.text,
                                      !.usage = SumUsage(call.usage, g.usage),
                                      !.applied_steps =
                                          Append(@, "llmSpeakerFormatting")]
                        /\ pc' = "post"
                        /\ UNCHANGED <<retry_count, success, processed_chunk,
                                       applied_steps, logs, totalVars, reports,
                                       n_returned, attempts>>
    /\ UNCHANGED <<fnVars, argVars, svcVars, cached_lexicon, chunks, idx, processed,
                   progress, summary, final_results>>
    /\ TwinFollows

\* variant: the post phase's step names are reported first
ResultOfPostFirst(frame, clean_post) ==
    [text |-> Strip(clean_post.text),
     input_tokens |-> frame.usage.input_tokens,
     output_tokens |-> frame.usage.output_tokens,
     input_cost |-> frame.usage.input_cost,
     output_cost |-> frame.usage.output_cost,
     applied_steps |-> clean_post.applied \o frame.applied_steps]

\* the ProcessChunkResult of lines 261-268, from the post phase's result
ResultOf(frame, clean_post) ==
    [text |-> Strip(clean_post.text),
     input_tokens |-> frame.usage.input_tokens,
     output_tokens |-> frame.usage.output_tokens,
     input_cost |-> frame.usage.input_cost,
     output_cost |-> frame.usage.output_cost,
     applied_steps |-> frame.applied_steps \o clean_post.applied]

\* process_chunk lines 257-268: the post phase and the return value
ChunkResult(frame, options, lexicon) ==
    ResultOf(frame, ApplyDeterministicCleaning(frame.generated, options, "post", lexicon))

\* variant: retry_count counts every call that returned
TakeVerdictCountsEveryCall(result, ok) ==
    /\ processed_chunk' = result.text
    /\ total_input_tokens' = Accumulate(total_input_tokens, result.input_tokens)
    /\ total_output_tokens' = Accumulate(total_output_tokens, result.output_tokens)
    /\ total_cost' = Accumulate(total_cost, result.input_cost + result.output_cost)
    /\ applied_steps' = applied_steps \o result.applied_steps
    /\ success' = ok
    /\ reports' = reports \cup {<<result.input_tokens, result.output_tokens>>}
    /\ n_returned' = n_returned + 1
    /\ attempts' = Outcome(IF ok THEN "valid" ELSE "invalid")
    /\ retry_count' = retry_count + 1
    /\ pc' = IF ok THEN LoopTest(retry_count + 1, ok) ELSE "sleep"

\* process_text lines 75-79 and 90-91, on the result process_chunk returned
\* and the verdict of validate_output
TakeVerdict(result, ok) ==
    /\ processed_chunk' = result.text
    /\ total_input_tokens' = Accumulate(total_input_tokens, result.input_tokens)
    /\ total_output_tokens' = Accumulate(total_output_tokens, result.output_tokens)
    /\ total_cost' = Accumulate(total_cost, result.input_cost + result.output_cost)
    /\ applied_steps' = applied_steps \o result.applied_steps
    /\ success' = ok
    /\ reports' = reports \cup {<<result.input_tokens, result.output_tokens>>}
    /\ n_returned' = n_returned + 1
    /\ attempts' = Outcome(IF ok THEN "valid" ELSE "invalid")
    /\ IF ~ok
       THEN /\ retry_count' = retry_count + 1
            /\ pc' = "sleep"
       ELSE /\ retry_count' = retry_count
            /\ pc' = LoopTest(retry_count, ok)

\* process_text line 80, then the rest of the loop body
TakeResult(result) == TakeVerdict(result, validate_output(Chunk, result.text))

\* process_chunk lines 257-268 (post phase and return), then process_text
\* lines 75-80 and 90-91
PostCleanReturn ==
    /\ pc = "post"
    /\ \E result \in {ChunkResult(call, config.cleaning_options,
                                   LoadLexicon(cached_lexicon))} :
          TakeResult(result)
    /\ cached_lexicon' = CacheAfterCleaning(cached_lexicon, config.cleaning_options)
    /\ call' = NoCall
    /\ UNCHANGED <<fnVars, argVars, svcVars, chunks, idx, processed, logs, progress,
                   summary, gen_log, final_results>>
    /\ TwinFollows

\* line 92: time.sleep(1), then the while condition
Sleep ==
    /\ pc = "sleep"
    /\ pc' = LoopTest(retry_count, success)
    /\ UNCHANGED <<fnVars, argVars, svcVars, cached_lexicon, chunks, idx, retry_count,
                   success, processed_chunk, processed, applied_steps, logs,
                   totalVars, progress, summary, call, attempts, gen_log,
                   reports, n_returned, final_results>>
    /\ TwinFollows

\* variant: the snapshot numbers the chunks from one
SnapshotOneBased ==
    [chunk_index |-> idx + 1,
     processed_text |-> processed_chunk,
     status |-> IF success THEN "success" ELSE "failed",
     retry_count |-> retry_count,
     input_tokens |-> total_input_tokens,
     output_tokens |-> total_output_tokens,
     total_input_tokens |-> total_input_tokens,
     total_output_tokens |-> total_output_tokens,
     total_cost |-> total_cost]

\* the ProcessingProgress of lines 101-114, without its clock readings
Snapshot ==
    [chunk_index |-> idx,
     processed_text |-> processed_chunk,
     status |-> IF success THEN "success" ELSE "failed",
     retry_count |-> retry_count,
     input_tokens |-> total_input_tokens,
     output_tokens |-> total_output_tokens,
     total_input_tokens |-> total_input_tokens,
     total_output_tokens |-> total_output_tokens,
     total_cost |-> total_cost]

\* lines 94-116: the chunk's result is fixed, the snapshot is built and the
\* callback, if one is attached, is called and returns or raises
FinishChunk ==
    /\ pc = "append"
    /\ processed' = AppendResult(processed, processed_chunk)
    /\ final_results' = Append(final_results, [chunk |-> idx, text |-> processed_chunk])
    /\ progress' = Some(Snapshot)
    /\ UNCHANGED <<fnVars, argVars, svcVars, cached_lexicon, chunks, idx, retry_count,
                   success, processed_chunk, applied_steps, logs, totalVars,
                   summary, call, attempts, gen_log, reports, n_returned>>
    /\ \/ /\ on_progress \in {NoCallback, "returns"}
          /\ pc' = "for"
          /\ TwinFollows
       \/ /\ on_progress = "raises"
          /\ pc' = "aborted"
          /\ twin' = [Obs' EXCEPT !.pc = "for"]

\* lines 118-127
ReturnSummary ==
    /\ pc = "for"
    /\ ~(idx + 1 < Len(chunks))
    /\ summary' = Some(
                  [text |-> JoinResults(processed),
                   total_chunks |-> Len(chunks),
                   total_input_tokens |-> total_input_tokens,
                   total_output_tokens |-> total_output_tokens,
                   total_cost |-> total_cost,
                   applied_cleaning_steps |-> applied_steps,
                   logs |-> logs])
    /\ pc' = "done"
    /\ UNCHANGED <<fnVars, argVars, svcVars, cached_lexicon, chunks, idx, retry_count,
                   success, processed_chunk, processed, applied_steps, logs,
                   totalVars, progress, call, attempts, gen_log, reports,
                   n_returned, final_results>>
    /\ TwinFollows

Next ==
    \/ ProcessTextStart
    \/ BeginChunk
    \/ ProcessChunkEnter
    \/ Generate1
    \/ Generate2
    \/ PostCleanReturn
    \/ Sleep
    \/ FinishChunk
    \/ ReturnSummary

Spec == Init /\ [][Next]_vars

\* the runs over a one-chunk document, under every prompting strategy
ChunkSpec == ChunkInit /\ [][Next]_vars

\* process_text runs on one thread that nothing suspends: every step that
\* can be taken is taken
FairSpec == Spec /\ WF_vars(Next)

(***************************************************************************)
(* Properties of process_text.                                             *)
(***************************************************************************)
\* the result of the chunk the for loop is at has been fixed (line 94 ran)
ChunkDone == idx >= 0 /\ Len(final_results) = idx + 1

\* the result fixed for the chunk the for loop is at
ChunkResultText == final_results[idx + 1].text

\* the number of fallback notices logged for chunk i (zero-based)
FallbackCount(i) ==
    Cardinality({k \in 1..Len(logs) : logs[k] = FallbackLine(i)})

\* the number of exceptions logged for chunk i (zero-based) with detail exc
ErrorCount(i, exc) ==
    Cardinality({k \in 1..Len(logs) : logs[k] = ErrorLine(i, exc)})

\* the second attempt on the chunk was made and did not validate
FailedTwice == Len(attempts) = 2 /\ attempts[2] \in {"raised", "invalid"}

\* C1: a chunk that ends without a validated result after its second attempt
\* (each attempt raised or returned an invalid result, in any combination)
\* has the original chunk text as its result and a fallback notice logged.
\* The code falls back only when the second attempt raised.
C1_FallbackAfterTwoFailures ==
    (ChunkDone /\ FailedTwice) =>
        /\ ChunkResultText = Chunk
        /\ FallbackCount(idx) >= 1

\* C2: when every process_chunk call on a chunk raised, the chunk was
\* attempted exactly twice, its result is the original chunk text and
\* exactly one fallback notice is logged for it.
C2_RaisingBackend ==
    (ChunkDone /\ \A k \in 1..Len(attempts) : attempts[k] = "raised") =>
        /\ Len(attempts) = 2
        /\ ChunkResultText = Chunk
        /\ FallbackCount(idx) = 1

\* a chunk was finished after the backend itself raised on both attempts
C2_Witness ==
    /\ ChunkDone
    /\ attempts = <<"raised", "raised">>
    /\ gen_log # <<>>
    /\ ErrorCount(idx, BackendError) = 2

\* C3: when the callback does not raise, process_text terminates whatever
\* the backend does (raises, invalid output, valid output, in any sequence)
\* and returns a summary with total_chunks = N and one result per chunk.
C3_Terminates ==
    (on_progress # "raises") =>
        <>(/\ pc = "done"
           /\ summary # None
           /\ summary[1].total_chunks = Len(chunks)
           /\ Len(processed) = Len(chunks))

\* a summary was returned for a document of two chunks, one of which the
\* backend raised on and one of which it answered invalid text for
C3_Witness ==
    /\ pc = "done"
    /\ Len(chunks) = 2
    /\ summary # None
    /\ \E k \in 1..Len(logs) : logs[k].kind = "error"
    /\ \E j \in 1..Len(processed) : processed[j] = <<>>

\* C4: process_chunk is called at least once and at most twice on every
\* chunk before the for loop moves on.
C4_OneOrTwoAttempts ==
    /\ Len(attempts) <= 2
    /\ ChunkDone => Len(attempts) >= 1

\* a chunk was finished after an invalid result and then an exception
C4_Witness ==
    /\ ChunkDone
    /\ attempts = <<"invalid", "raised">>

\* C5: a missing credential for the hosted API is fatal and surfaced at once:
\* the chunk it was raised on is not attempted again and takes no fallback.
\* The code handles the error like every other exception: it is logged, the
\* chunk is attempted once more and then falls back to its original text.
C5_CredentialErrorFatal ==
    (idx >= 0 /\ ErrorCount(idx, CredentialError) >= 1) =>
        /\ Len(attempts) = 1
        /\ FallbackCount(idx) = 0
        /\ ~ChunkDone

\* the offset in the joined text at which the k-th result begins
RECURSIVE ResultOffset(_, _)
ResultOffset(results, k) ==
    IF k = 1 THEN 0
    ELSE ResultOffset(results, k - 1) + Len(results[k - 1].text) + 2

\* the length of the results joined by a two-character separator
JoinedLen(results) ==
    IF results = <<>> THEN 0
    ELSE ResultOffset(results, Len(results)) + Len(results[Len(results)].text)

\* the k-th result stands at its offset in the text t, followed by "\n\n"
\* unless it is the last
ResultInPlace(t, results, k) ==
    /\ SubSeq(t, ResultOffset(results, k) + 1,
              ResultOffset(results, k) + Len(results[k].text)) = results[k].text
    /\ k < Len(results) =>
          /\ t[ResultOffset(results, k + 1) - 1] = "\n"
          /\ t[ResultOffset(results, k + 1)] = "\n"

\* C6: chunks are processed strictly in order: while chunk idx is attempted
\* the results of exactly the chunks before it are fixed; the summary text
\* is the results in chunk order, joined by "\n\n".
C6_InOrderJoined ==
    /\ \A k \in 1..Len(final_results) : final_results[k].chunk = k - 1
    /\ pc \in {"call", "gen1", "gen2", "post", "sleep", "append"} =>
          /\ Len(final_results) = idx
          /\ Len(processed) = idx
    /\ pc = "done" =>
          /\ Len(final_results) = Len(chunks)
          /\ Len(summary[1].text) = JoinedLen(final_results)
          /\ \A k \in 1..Len(final_results) :
                ResultInPlace(summary[1].text, final_results, k)

\* a summary was returned for two chunks with different, non-empty results
C6_Witness ==
    /\ pc = "done"
    /\ Len(final_results) = 2
    /\ final_results[1].text # <<>>
    /\ final_results[2].text # <<>>
    /\ final_results[1].text # final_results[2].text

\* no process_chunk call of the run raised
NoRaise == \A k \in 1..Len(logs) : logs[k].kind # "error"

C8_CallbackObservational == twin = Obs

\* the text the pre phase hands to the first prompt
PreCleanedText ==
    IF config.llm_cleaning_disabled THEN Chunk
    ELSE ApplyDeterministicCleaning(Chunk, config.cleaning_options, "pre",
                                    LoadedLexicon).text

\* C9: a process_chunk call that returns has made one generation call with
\* the speaker prompt built from the pre-cleaned text (step
\* llmSpeakerSinglePass) when the speaker configuration is active and
\* single_pass is set; two calls, the cleaning prompt and then the speaker
\* prompt built from the text the first call generated, when it is active
\* and single_pass is not set; one call with the cleaning prompt otherwise.
C9_GenerationCalls ==
    pc = "post" =>
        IF SpeakerEnabled(config.speaker_config) /\ config.single_pass
        THEN /\ Len(gen_log) = 1
             /\ gen_log[1].prompt.kind = "speaker"
             /\ gen_log[1].prompt.text = PreCleanedText
             /\ call.applied_steps[Len(call.applied_steps)] = "llmSpeakerSinglePass"
        ELSE IF SpeakerEnabled(config.speaker_config)
        THEN /\ Len(gen_log) = 2
             /\ gen_log[1].prompt.kind = "cleaning"
             /\ gen_log[2].prompt.kind = "speaker"
             /\ gen_log[2].prompt.text = gen_log[1].answer[1]
        ELSE /\ Len(gen_log) = 1
             /\ gen_log[1].prompt.kind = "cleaning"

\* a two-stage call is returning whose first call generated a text other
\* than the pre-cleaned text its cleaning prompt was built from
C9_Witness ==
    /\ pc = "post"
    /\ Len(gen_log) = 2
    /\ gen_log[1].prompt.text = <<"A", " ", ".">>
    /\ gen_log[1].prompt.text # Chunk
    /\ gen_log[2].prompt.text = <<"a", "B", "c">>

\* C10: with llm_cleaning_disabled set no generation call carries the
\* cleaning prompt, and a generation call is made only when the speaker
\* configuration is active.  The code skips only the deterministic pre phase.
C10_NoCleaningPrompt ==
    config.llm_cleaning_disabled =>
        /\ \A k \in 1..Len(gen_log) : gen_log[k].prompt.kind # "cleaning"
        /\ gen_log # <<>> => SpeakerEnabled(config.speaker_config)

(***************************************************************************)
(* text_cleaner.py: apply_deterministic_cleaning, statement by statement,  *)
(* applied to a text and then to its own output.                           *)
(***************************************************************************)
MaxTokens == 3

\* the pieces the cleaned texts are made of: words the camel-case step
\* splits, a bracketed reference, a blank, a URL and a smart quote
CleanTokens ==
    << <<"a", "B", "c">>, <<"D", "e">>, <<"[", "1", "]">>, <<" ">>,
       <<"w", "w", "w", ".", "x">>, <<"RSQUO">> >>

\* the text made of the pieces a sequence of indices names
RECURSIVE TextOf(_)
TextOf(ks) ==
    IF ks = <<>> THEN <<>> ELSE CleanTokens[Head(ks)] \o TextOf(Tail(ks))

CleanTexts ==
    UNION {{TextOf(ks) : ks \in [1..n -> 1..Len(CleanTokens)]} : n \in 0..MaxTokens}

\* CleaningOptions with every flag cleared, and with every flag set
NoCleaningOptions ==
    [replace_smart_quotes |-> FALSE, fix_ocr_errors |-> FALSE,
     correct_spelling |-> FALSE, remove_urls |-> FALSE,
     remove_footnotes |-> FALSE, add_punctuation |-> FALSE,
     fix_hyphenation |-> FALSE]

AllCleaningOptions ==
    [replace_smart_quotes |-> TRUE, fix_ocr_errors |-> TRUE,
     correct_spelling |-> TRUE, remove_urls |-> TRUE,
     remove_footnotes |-> TRUE, add_punctuation |-> TRUE,
     fix_hyphenation |-> TRUE]

CleanOptionSets == {DefaultCleaningOptions, NoCleaningOptions, AllCleaningOptions}

Phases == {"pre", "post"}

\* the variables of process_text and of the service but the lexicon cache
runVars == <<argVars, svcVars, pc, bodyVars, twin>>

\* no document is being processed
NoRun ==
    /\ text = <<>>
    /\ config = [batch_size |-> 1, cleaning_options |-> DefaultCleaningOptions,
                 speaker_config |-> None, model_source |-> "ollama",
                 single_pass |-> FALSE, llm_cleaning_disabled |-> FALSE]
    /\ on_progress = NoCallback
    /\ environ = [HUGGINGFACE_API_TOKEN |-> NoToken, HF_TOKEN |-> NoToken]
    /\ pc = "idle"
    /\ Fresh
    /\ twin = Obs

\* lines 421-423: the call is entered, text = input_text, applied = []
EnterCleaning(input_text, options, phase, run) ==
    [input_text |-> input_text, options |-> options, phase |-> phase,
     text |-> input_text, applied |-> <<>>, at |-> "smart", run |-> run]

CleanInit ==
    /\ NoRun
    /\ probe = NoProbe
    /\ \E input_text \in CleanTexts, options \in CleanOptionSets, phase \in Phases :
           cleaning = EnterCleaning(input_text, options, phase, 1)

\* the (text, applied) pair of the running call
Cleaned == [text |-> cleaning.text, applied |-> cleaning.applied]

\* the call moves on to the statement named at with the pair r
CleaningMoves(r, at) ==
    cleaning' = [cleaning EXCEPT !.text = r.text, !.applied = r.applied,
                                 !.at = at]

\* lines 425-429
CleanSmartQuotes ==
    /\ cleaning.at = "smart"
    /\ \E r \in {StepSmartQuotes(Cleaned, cleaning.options)} :
           CleaningMoves(r, "urls")
    /\ UNCHANGED <<runVars, loaders, cached_lexicon, probe>>

\* lines 431-435
CleanUrls ==
    /\ cleaning.at = "urls"
    /\ \E r \in {StepUrls(Cleaned, cleaning.options)} :
           CleaningMoves(r, "footnotes")
    /\ UNCHANGED <<runVars, loaders, cached_lexicon, probe>>

\* lines 437-441
CleanFootnotes ==
    /\ cleaning.at = "footnotes"
    /\ \E r \in {StepFootnotes(Cleaned, cleaning.options, cleaning.phase)} :
           CleaningMoves(r, "hyphenation")
    /\ UNCHANGED <<runVars, loaders, cached_lexicon, probe>>

\* lines 443-447
CleanHyphenation ==
    /\ cleaning.at = "hyphenation"
    /\ \E r \in {StepHyphenation(Cleaned, cleaning.options)} :
           CleaningMoves(r, "camel")
    /\ UNCHANGED <<runVars, loaders, cached_lexicon, probe>>

\* lines 449-453
CleanCamelCase ==
    /\ cleaning.at = "camel"
    /\ \E r \in {StepCamelCase(Cleaned, cleaning.options)} :
           CleaningMoves(r, "merged")
    /\ UNCHANGED <<runVars, loaders, cached_lexicon, probe>>

\* lines 454-458, with the lexicon _load_lexicon returns and caches
CleanMergedWords ==
    /\ cleaning.at = "merged"
    /\ \E r \in {StepMergedWords(Cleaned, cleaning.options,
                                 LoadLexicon(cached_lexicon))} :
           CleaningMoves(r, "spacing")
    /\ cached_lexicon' = CacheAfterCleaning(cached_lexicon, cleaning.options)
    /\ UNCHANGED <<runVars, loaders, probe>>

\* lines 460-461: the spacing is normalised and the result returned
CleanSpacing ==
    /\ cleaning.at = "spacing"
    /\ \E r \in {StepSpacing(Cleaned)} : CleaningMoves(r, "returned")
    /\ UNCHANGED <<runVars, loaders, cached_lexicon, probe>>

\* the engine is applied to its own output, under the same options and phase
CleanAgain ==
    /\ cleaning.at = "returned"
    /\ cleaning.run = 1
    /\ cleaning' = EnterCleaning(cleaning.text, cleaning.options,
                                 cleaning.phase, 2)
    /\ UNCHANGED <<runVars, loaders, cached_lexicon, probe>>

CleanNext ==
    \/ CleanSmartQuotes
    \/ CleanUrls
    \/ CleanFootnotes
    \/ CleanHyphenation
    \/ CleanCamelCase
    \/ CleanMergedWords
    \/ CleanSpacing
    \/ CleanAgain

CleanSpec == CleanInit /\ [][CleanNext]_vars

(***************************************************************************)
(* Properties of the cleaning engine.                                      *)
(***************************************************************************)
\* the call under observation has returned
CleaningReturned == cleaning.at = "returned"

\* the statements compose to the function process_chunk calls
CleaningIsTheFunction ==
    CleaningReturned =>
        Cleaned = ApplyDeterministicCleaning(cleaning.input_text, cleaning.options,
                                             cleaning.phase, LoadedLexicon)

\* C11: the cleaning engine is idempotent: applied to its own output under
\* the same options it returns the same text and records no step
C11_Idempotent ==
    (CleaningReturned /\ cleaning.run = 2) =>
        /\ cleaning.text = cleaning.input_text
        /\ cleaning.applied = <<>>

\* the step names in the order apply_deterministic_cleaning runs the steps
StepOrder ==
    <<"replaceSmartQuotes", "removeUrls", "removeFootnotes", "fixHyphenation",
      "splitCamelCase", "splitMergedWords">>

\* the statement at which each step runs
StepPlaces == <<"smart", "urls", "footnotes", "hyphenation", "camel", "merged">>

\* the step that runs at the statement named at
StepNameAt(at) == StepOrder[CHOOSE k \in 1..Len(StepPlaces) : StepPlaces[k] = at]

\* the CleaningOptions flag that governs the step
OptionOf(name, options) ==
    CASE name = "replaceSmartQuotes" -> options.replace_smart_quotes
      [] name = "removeUrls" -> options.remove_urls
      [] name = "removeFootnotes" -> options.remove_footnotes
      [] name = "fixHyphenation" -> options.fix_hyphenation
      [] name = "splitCamelCase" -> options.fix_ocr_errors
      [] name = "splitMergedWords" -> options.fix_ocr_errors

\* a is b with some of its elements left out
RECURSIVE IsSubsequence(_, _)
IsSubsequence(a, b) ==
    IF a = <<>> THEN TRUE
    ELSE IF b = <<>> THEN FALSE
    ELSE IF Head(a) = Head(b) THEN IsSubsequence(Tail(a), Tail(b))
    ELSE IsSubsequence(a, Tail(b))

\* one of the six guarded steps of the running call is taken
GuardedStep ==
    /\ cleaning.at \in {StepPlaces[k] : k \in 1..Len(StepPlaces)}
    /\ cleaning'.run = cleaning.run

\* C12: the applied-steps list is always a subsequence of the six step names
\* in their fixed order; a step records its name only if its option is set
\* and only if it changed the text when it ran; a step whose option is clear
\* leaves the text as it was
C12_AppliedSteps ==
    [][/\ IsSubsequence(cleaning'.applied, StepOrder)
       /\ GuardedStep =>
            /\ cleaning'.applied \in
                   {cleaning.applied,
                    Append(cleaning.applied, StepNameAt(cleaning.at))}
            /\ cleaning'.applied # cleaning.applied =>
                   /\ OptionOf(StepNameAt(cleaning.at), cleaning.options)
                   /\ cleaning'.text # cleaning.text
            /\ ~OptionOf(StepNameAt(cleaning.at), cleaning.options) =>
                   cleaning'.text = cleaning.text]_vars

\* a first call that returned with two steps recorded
C12_Witness ==
    /\ CleaningReturned
    /\ cleaning.run = 1
    /\ cleaning.options = DefaultCleaningOptions
    /\ cleaning.applied = <<"removeFootnotes", "splitCamelCase">>

\* the number of places where the reference [1] stands in t
CountReferences(t) ==
    Cardinality({i \in 1..(Len(t) - 2) : SubSeq(t, i, i + 2) = <<"[", "1", "]">>})

\* C13: reference removal runs in the pre phase only: with remove_footnotes
\* set, the pre phase strips "[1]"; the post phase leaves every reference in
\* place (the step keeps the text, and so does the whole call unless a URL is
\* removed) and never records removeFootnotes
C13_FootnotesPreOnly ==
    [][/\ (cleaning.at = "footnotes" /\ cleaning.phase = "post") =>
              cleaning'.text = cleaning.text
       /\ cleaning'.phase = "post" => \A k \in 1..Len(cleaning'.applied) :
              cleaning'.applied[k] # "removeFootnotes"
       /\ (cleaning.at = "footnotes" /\ cleaning.phase = "pre"
              /\ cleaning.options.remove_footnotes) =>
              CountReferences(cleaning'.text) = 0
       /\ (cleaning'.at = "returned" /\ cleaning'.phase = "post"
              /\ \A k \in 1..Len(cleaning'.applied) :
                     cleaning'.applied[k] # "removeUrls") =>
              CountReferences(cleaning'.text)
                  = CountReferences(cleaning'.input_text)]_vars

\* a post-phase call that returned, remove_footnotes set, the reference kept
C13_Witness ==
    /\ CleaningReturned
    /\ cleaning.phase = "post"
    /\ cleaning.options.remove_footnotes
    /\ CountReferences(cleaning.input_text) > 0
    /\ CountReferences(cleaning.text) = CountReferences(cleaning.input_text)

(***************************************************************************)
(* split_into_chunks, validate_output and estimate_tokens, each applied to *)
(* a text drawn from the texts of up to MaxChars characters.               *)
(***************************************************************************)
MaxChars == 8

\* a letter, a blank and a sentence terminal
ProbeChars == {"a", " ", "."}

ProbeTexts == UNION {[1..n -> ProbeChars] : n \in 0..MaxChars}

ProbeInit ==
    /\ NoRun
    /\ cleaning = NoCleaning
    /\ \E t \in ProbeTexts : probe = [fn |-> "none", text |-> t]

\* TextProcessor.split_into_chunks(text, batch_size)
CallSplitIntoChunks ==
    /\ probe.fn = "none"
    /\ \E batch_size \in 1..MaxBatch :
         \E result \in {split_into_chunks(probe.text, batch_size)} :
           probe' = [fn |-> "split_into_chunks", text |-> probe.text,
                     batch_size |-> batch_size, result |-> result]
    /\ UNCHANGED <<runVars, loaders, cached_lexicon, cleaning>>

\* LLMService.validate_output(original, generated), the text as generated and
\* the original either the same text or another one
CallValidateOutput ==
    /\ probe.fn = "none"
    /\ \E original \in {probe.text, <<"a">>} :
           probe' = [fn |-> "validate_output", text |-> probe.text,
                     original |-> original,
                     result |-> validate_output(original, probe.text)]
    /\ UNCHANGED <<runVars, loaders, cached_lexicon, cleaning>>

\* estimate_tokens(text)
CallEstimateTokens ==
    /\ probe.fn = "none"
    /\ probe' = [fn |-> "estimate_tokens", text |-> probe.text,
                 result |-> estimate_tokens(probe.text)]
    /\ UNCHANGED <<runVars, loaders, cached_lexicon, cleaning>>

ProbeNext ==
    \/ CallSplitIntoChunks
    \/ CallValidateOutput
    \/ CallEstimateTokens

ProbeSpec == ProbeInit /\ [][ProbeNext]_vars

(***************************************************************************)
(* Properties of the three functions.                                      *)
(***************************************************************************)
\* t holds nothing but whitespace (the empty text included)
AllWhitespace(t) == \A i \in 1..Len(t) : t[i] \in WS

\* C14: validate_output returns false if and only if the generated text is
\* empty after trimming; every other generated text, one identical to the
\* original included, is accepted
C14_ValidateOutput ==
    probe.fn = "validate_output" =>
        (probe.result = FALSE <=> AllWhitespace(probe.text))

\* a non-blank answer identical to the original, accepted
C14_Witness ==
    /\ probe.fn = "validate_output"
    /\ probe.original = probe.text
    /\ ~AllWhitespace(probe.text)
    /\ probe.result = TRUE

\* the characters of t that are not whitespace, in their order
NotWS(c) == c \notin WS

NonWhitespace(t) == SelectSeq(t, NotWS)

\* the k-th group of batch_size sentences
SentenceGroup(sentences, k, batch_size) ==
    Slice(sentences, (k - 1) * batch_size + 1,
          IF k * batch_size < Len(sentences) THEN k * batch_size
          ELSE Len(sentences))

\* C15: split_into_chunks groups the sentences into chunks of exactly
\* batch_size sentences (only the last may be shorter), in their order, and
\* the chunks joined by single spaces hold every non-whitespace character of
\* the input, in the input's order
C15_ChunksKeepEveryCharacter ==
    probe.fn = "split_into_chunks" =>
        /\ Len(probe.result) * probe.batch_size
               < Len(Sentences(probe.text)) + probe.batch_size
        /\ Len(probe.result) * probe.batch_size >= Len(Sentences(probe.text))
        /\ \A k \in 1..Len(probe.result) :
               probe.result[k]
                   = Join(SentenceGroup(Sentences(probe.text), k,
                                        probe.batch_size), <<" ">>)
        /\ NonWhitespace(Join(probe.result, <<" ">>))
               = NonWhitespace(probe.text)

\* C16: split_into_chunks returns a non-empty chunk list for every non-empty
\* input text
C16_ChunksOfNonEmptyText ==
    (probe.fn = "split_into_chunks" /\ probe.text # <<>>) =>
        probe.result # <<>>

\* the number of characters str.strip() leaves of t
StrippedLen(t) ==
    IF AllWhitespace(t) THEN 0
    ELSE (CHOOSE j \in 1..Len(t) :
              t[j] \notin WS /\ \A k \in (j + 1)..Len(t) : t[k] \in WS)
         - (CHOOSE i \in 1..Len(t) :
                t[i] \notin WS /\ \A k \in 1..(i - 1) : t[k] \in WS)
         + 1

\* C19 as stated: estimate_tokens(text) = max(1, floor(trimmed length / 4))
\* for every text, the empty text and whitespace-only texts included
C19_EstimateOfEveryText ==
    probe.fn = "estimate_tokens" =>
        probe.result = Max(1, StrippedLen(probe.text) \div 4)

\* C19, amended: estimate_tokens(text) = max(1, floor(trimmed length / 4)) for
\* every non-empty text, whitespace-only texts included, and 0 for the empty
\* text
C19_EstimateTokens ==
    probe.fn = "estimate_tokens" =>
        probe.result = IF probe.text = <<>> THEN 0
                       ELSE Max(1, StrippedLen(probe.text) \div 4)

\* the estimate of the empty text
C19_Witness ==
    /\ probe.fn = "estimate_tokens"
    /\ probe.text = <<>>
    /\ probe.result = 0

(***************************************************************************)
(* app.py: the handlers run_processing and configure_token, the service's  *)
(* set_api_token, and the environment changing under the service.          *)
(***************************************************************************)
\* variant: no text is turned away
TextMissingNever(t) == FALSE

\* the guard of the raise in _build_processing_config (line 140)
TextMissing(t) == Strip(t) = <<>>

\* the texts the form may hold: nothing, a blank, or a one-sentence document
AppDocuments == {<<>>, <<" ">>, Document(1)}

\* the configurations of the handler's runs: both model sources, with and
\* without the speaker-formatting stage
AppConfigs == {c \in DocConfigs : c.batch_size = 1}

\* the handler has been called and has not yet reached _build_processing_config;
\* run_processing passes no progress callback
AppInit ==
    /\ text \in AppDocuments
    /\ config \in AppConfigs
    /\ on_progress = NoCallback
    /\ environ \in Environs(config.model_source)
    /\ pc = "ui"
    /\ Fresh
    /\ twin = Obs
    /\ cleaning = NoCleaning
    /\ probe = NoProbe

\* run_processing lines 221-254: the configuration is built, which raises
\* gr.Error for a text with nothing in it, and process_text is called
RunProcessing ==
    /\ pc = "ui"
    /\ pc' = IF TextMissing(text) THEN "rejected" ELSE "start"
    /\ UNCHANGED <<fnVars, argVars, svcVars, cached_lexicon, bodyVars>>
    /\ TwinFollows

\* os.environ after the if / elif of set_api_token (lines 72-75)
EnvironAfterSet(env, token) ==
    IF token \notin {NoToken, ""}
    THEN [env EXCEPT !.HUGGINGFACE_API_TOKEN = token]
    ELSE [env EXCEPT !.HUGGINGFACE_API_TOKEN = NoToken]

\* LLMService.set_api_token(token)
SetApiToken(token) ==
    /\ \E env \in {EnvironAfterSet(environ, token)} :
         /\ environ' = env
         /\ \E upd \in {UpdateClientFromEnv(env, svc_token, svc_client)} :
              /\ svc_token' = upd.token
              /\ svc_client' = upd.client
    /\ UNCHANGED <<fnVars, text, config, on_progress, cached_lexicon, pc,
                   bodyVars>>
    /\ TwinFollows

\* what the token box may hold, and token.strip() of it
TokenEntries == {"", " ", "hf_B"}

StripEntry(entry) == IF entry = " " THEN "" ELSE entry

\* configure_token(token): set_api_token(token.strip() or None)
ConfigureToken(entry) ==
    SetApiToken(IF StripEntry(entry) = "" THEN NoToken ELSE StripEntry(entry))

\* the values set_api_token accepts: None, the empty string, a blank, a token
TokenArguments == {NoToken, "", " ", "hf_B"}

\* HF_TOKEN is set or unset in os.environ by code other than the service
EnvironChanges ==
    /\ \E value \in {NoToken, "hf_H"} :
           environ' = [environ EXCEPT !.HF_TOKEN = value]
    /\ environ' # environ
    /\ UNCHANGED <<fnVars, text, config, on_progress, svcVars, cached_lexicon,
                   pc, bodyVars>>
    /\ TwinFollows

AppNext ==
    \/ RunProcessing
    \/ \E entry \in TokenEntries : ConfigureToken(entry)
    \/ \E token \in TokenArguments : SetApiToken(token)
    \/ EnvironChanges
    \/ Next

AppSpec == AppInit /\ [][AppNext]_vars

(***************************************************************************)
(* Properties of the application and of the service's credential.          *)
(***************************************************************************)
\* an empty or blank value for set_api_token
BlankTokens == {NoToken, "", " "}

\* C17: setting the token to an empty or blank value clears the credential:
\* after the call no token is configured and the service holds no client
C17_BlankTokenClears ==
    [][(\E token \in BlankTokens : SetApiToken(token)) =>
           /\ ResolveToken(environ') = NoToken
           /\ svc_client' = None]_vars

\* a process_chunk call is entered
ProcessChunkEntered == Len(attempts') > Len(attempts)

\* C18: the credential is re-resolved before each use: whatever set_api_token
\* calls and environment changes came before, when process_chunk has passed
\* its first statement the service holds a client if and only if a token is
\* configured, and the client was built from the token configured now
C18_ClientOfCurrentToken ==
    [][ProcessChunkEntered =>
           /\ svc_token' = ResolveToken(environ)
           /\ svc_client' # None <=> ResolveToken(environ) # NoToken
           /\ svc_client' # None =>
                  svc_client'[1].token = ResolveToken(environ)]_vars

\* a second attempt that runs with a client built from the token the
\* environment got after the first attempt found none
C18_Witness ==
    /\ pc = "gen1"
    /\ config.model_source = "api"
    /\ attempts = <<"raised", "running">>
    /\ environ = [HUGGINGFACE_API_TOKEN |-> NoToken, HF_TOKEN |-> "hf_H"]
    /\ svc_client = Some([token |-> "hf_H"])

\* C20: a document whose text is empty is rejected before chunking begins:
\* split_into_chunks is not called, no process_chunk call is made and no
\* ProcessingSummary is produced
C20_EmptyTextRejected ==
    AllWhitespace(text) =>
        /\ pc \in {"ui", "rejected"}
        /\ chunks = <<>>
        /\ attempts = <<>>
        /\ n_returned = 0
        /\ summary = None

\* the empty text, turned away
C20_Witness ==
    /\ text = <<>>
    /\ pc = "rejected"

(***************************************************************************)
(* text_cleaner.py: _load_lexicon, called by up to MaxLoaders threads (the *)
(* handlers of the application run on a thread pool).                      *)
(***************************************************************************)
\* the words of the dictionary files among DICT_CANDIDATE_PATHS
Dictionaries == {{<<"w", "o", "r", "d">>}, {<<"w", "o", "r", "d">>, <<"f", "i", "l", "e">>}}

\* what lines 327-343 may build: the fallback words, with the words of every
\* candidate file that exists and can be read at the time of the call
LexiconsBuilt == {LoadedLexicon \cup UNION readable : readable \in SUBSET Dictionaries}

LoaderInit ==
    /\ NoRun
    /\ cleaning = NoCleaning
    /\ probe = NoProbe

\* thread t moves to the statement named at
LoaderAt(t, at) == [loaders EXCEPT !.at[t] = at]

\* lines 322-323: thread t calls _load_lexicon
LoadLexiconCall(t) ==
    /\ loaders.at[t] \in {"idle", "returned"}
    /\ loaders' = LoaderAt(t, "test")
    /\ UNCHANGED <<runVars, cached_lexicon, cleaning, probe>>

\* lines 324-325: the cache is tested and, if populated, returned
LoadLexiconTest(t) ==
    /\ loaders.at[t] = "test"
    /\ loaders' = IF cached_lexicon # None
                  THEN [LoaderAt(t, "returned") EXCEPT !.lexicon[t] = cached_lexicon]
                  ELSE LoaderAt(t, "build")
    /\ UNCHANGED <<runVars, cached_lexicon, cleaning, probe>>

\* lines 327-343: the lexicon is built in a local
LoadLexiconBuild(t) ==
    /\ loaders.at[t] = "build"
    /\ \E lexicon \in LexiconsBuilt :
           loaders' = [LoaderAt(t, "store") EXCEPT !.lexicon[t] = Some(lexicon)]
    /\ UNCHANGED <<runVars, cached_lexicon, cleaning, probe>>

\* lines 344-345: the local is assigned to _cached_lexicon and returned
LoadLexiconStore(t) ==
    /\ loaders.at[t] = "store"
    /\ cached_lexicon' = loaders.lexicon[t]
    /\ loaders' = [LoaderAt(t, "returned") EXCEPT !.stores = @ + 1]
    /\ UNCHANGED <<runVars, cleaning, probe>>

LoaderNext ==
    \E t \in 1..MaxLoaders :
        \/ LoadLexiconCall(t)
        \/ LoadLexiconTest(t)
        \/ LoadLexiconBuild(t)
        \/ LoadLexiconStore(t)

LoaderSpec == LoaderInit /\ [][LoaderNext]_vars

(***************************************************************************)
(* Properties of the lexicon cache.                                        *)
(***************************************************************************)
\* C21: the lexicon cache is populated at most once and never modified
\* afterwards, under any interleaving of the callers of _load_lexicon
C21_PopulatedOnce ==
    [][/\ cached_lexicon # None => cached_lexicon' = cached_lexicon
       /\ loaders'.stores <= 1]_vars

(***************************************************************************)
(* text_cleaner.py: _remove_references and _split_merged_words, each       *)
(* applied to a text drawn from the reference groups of up to MaxInterior  *)
(* characters and the words of up to MaxParts fragments.                   *)
(***************************************************************************)
MaxInterior == 3

MaxParts == 6

\* a digit, two letters of the numeral class, a letter outside it, a blank
\* and a separator
InteriorChars == {"1", "d", "i", "a", " ", ","}

\* a bracketed and a parenthesized group around every interior
Groups ==
    {<<pair[1]>> \o interior \o <<pair[2]>> :
        pair \in {<<"[", "]">>, <<"(", ")">>},
        interior \in UNION {[1..n -> InteriorChars] : n \in 0..MaxInterior}}

\* fragments a merged word is made of: three words of FALLBACK_WORDS (one of
\* them capitalised) and one of its words of fewer than three letters
Fragments ==
    {<<"t","h","e">>, <<"T","h","i","n","g">>,
     <<"s","o","m","e","t","h","i","n","g">>, <<"a","n">>}

RECURSIVE Concat(_)
Concat(parts) == IF parts = <<>> THEN <<>> ELSE Head(parts) \o Concat(Tail(parts))

MergedWords == {Concat(parts) : parts \in UNION {[1..n -> Fragments] : n \in 1..MaxParts}}

\* the lexicon handed to _split_merged_words: words of FALLBACK_WORDS
WordLexicon == LoadedLexicon \cup {<<"s","o","m","e","t","h","i","n","g">>, <<"a","n">>}

WordInit ==
    /\ NoRun
    /\ cleaning = NoCleaning
    /\ \E t \in Groups \cup MergedWords : probe = [fn |-> "none", text |-> t]

\* _remove_references(text)
CallRemoveReferences ==
    /\ probe.fn = "none"
    /\ \E result \in {RemoveReferences(probe.text)} :
           probe' = [fn |-> "_remove_references", text |-> probe.text,
                     result |-> result]
    /\ UNCHANGED <<runVars, loaders, cached_lexicon, cleaning>>

\* _split_merged_words(text, lexicon)
CallSplitMergedWords ==
    /\ probe.fn = "none"
    /\ \E result \in {SplitMergedWords(probe.text, WordLexicon)} :
           probe' = [fn |-> "_split_merged_words", text |-> probe.text,
                     lexicon |-> WordLexicon, result |-> result]
    /\ UNCHANGED <<runVars, loaders, cached_lexicon, cleaning>>

WordNext ==
    \/ CallRemoveReferences
    \/ CallSplitMergedWords

WordSpec == WordInit /\ [][WordNext]_vars

(***************************************************************************)
(* Properties of the two functions.                                        *)
(***************************************************************************)
\* the numerals of 1..3999 in lower case, by their decimal digits
RomanDigits ==
    [ones |-> <<"i", "v", "x">>, tens |-> <<"x", "l", "c">>,
     hundreds |-> <<"c", "d", "m">>, thousands |-> <<"m", "m", "m">>]

RomanDigit(place, d) ==
    LET one == RomanDigits[place][1]
        five == RomanDigits[place][2]
        ten == RomanDigits[place][3]
    IN  CASE d = 0 -> <<>>
          [] d = 1 -> <<one>>
          [] d = 2 -> <<one, one>>
          [] d = 3 -> <<one, one, one>>
          [] d = 4 -> <<one, five>>
          [] d = 5 -> <<five>>
          [] d = 6 -> <<five, one>>
          [] d = 7 -> <<five, one, one>>
          [] d = 8 -> <<five, one, one, one>>
          [] d = 9 -> <<one, ten>>

RomanNumerals ==
    {RomanDigit("thousands", a) \o RomanDigit("hundreds", b)
        \o RomanDigit("tens", c) \o RomanDigit("ones", d) :
        a \in 0..3, b \in 0..9, c \in 0..9, d \in 0..9} \ {<<>>}

\* t[i..j] is a maximal run of letters of t
LetterRun(t, i, j) ==
    /\ i <= j
    /\ \A k \in i..j : t[k] \in Letter
    /\ i = 1 \/ t[i - 1] \notin Letter
    /\ j = Len(t) \/ t[j + 1] \notin Letter

\* C22: footnote removal deletes a bracketed or parenthesized group only when
\* its interior consists wholly of digit or Roman-numeral tokens, optionally
\* several of them separated by punctuation or whitespace; a group that
\* contains a word is never deleted
C22_OnlyNumeralGroupsDeleted ==
    (probe.fn = "_remove_references" /\ probe.result # probe.text) =>
        /\ \A k \in 2..(Len(probe.text) - 1) :
               probe.text[k] \in Digit \cup Letter \cup RefSep
        /\ \A i, j \in 2..(Len(probe.text) - 1) :
               LetterRun(probe.text, i, j) =>
                   LowerStr(Slice(probe.text, i, j)) \in RomanNumerals

\* w is the concatenation of k words of the lexicon, each of three letters or
\* more (compared in lower case)
RECURSIVE SplitsInto(_, _, _)
SplitsInto(w, lexicon, k) ==
    IF k = 1 THEN Len(w) >= 3 /\ LowerStr(w) \in lexicon
    ELSE \E i \in 3..(Len(w) - 3) :
            /\ LowerStr(Slice(w, 1, i)) \in lexicon
            /\ SplitsInto(Slice(w, i + 1, Len(w)), lexicon, k - 1)

\* a split the search can reach: two fragments at depth 0, up to five at
\* depth 3
Splittable(w, lexicon) == \E k \in 2..5 : SplitsInto(w, lexicon, k)

\* probe.text is one run of letters: a token of the text
IsToken == probe.text # <<>> /\ \A i \in 1..Len(probe.text) : probe.text[i] \in Letter

\* C23: merged-word splitting returns the token unchanged whenever it is
\* longer than 30 characters, shorter than 6 letters, already a word of the
\* lexicon, or has no split into lexicon words that the search (longest left
\* prefix first, recursing into the right fragment to depth 3) can reach
C23_UnchangedUnlessSplit ==
    (/\ probe.fn = "_split_merged_words"
     /\ IsToken
     /\ \/ Len(probe.text) > 30
        \/ Len(probe.text) < 6
        \/ LowerStr(probe.text) \in probe.lexicon
        \/ ~Splittable(probe.text, probe.lexicon))
    => probe.result = probe.text

\* a token of more than 30 characters that is a concatenation of four words
\* of the lexicon has been returned unchanged
C23_Witness ==
    /\ probe.fn = "_split_merged_words"
    /\ IsToken
    /\ Len(probe.text) > 30
    /\ Splittable(probe.text, probe.lexicon)
    /\ probe.result = probe.text

\* the pieces of t between its blanks
RECURSIVE Pieces(_)
Pieces(t) ==
    IF \A i \in 1..Len(t) : t[i] # " " THEN <<t>>
    ELSE Only({<<Slice(t, 1, k)>> \o Pieces(Slice(t, k + 2, Len(t)))
               : k \in {RunEndNot(t, 1, {" "})}})

\* C30: whenever merged-word splitting splits a token, the fragments
\* concatenated without spaces equal the original token exactly (case
\* preserved), every fragment in lower case is a lexicon word of at least
\* three letters, and there are between 2 and 5 fragments
C30_FragmentsOfSplit ==
    (/\ probe.fn = "_split_merged_words"
     /\ IsToken
     /\ probe.result # probe.text)
    => /\ Concat(Pieces(probe.result)) = probe.text
       /\ Len(Pieces(probe.result)) \in 2..5
       /\ \A n \in 1..Len(Pieces(probe.result)) :
              /\ Len(Pieces(probe.result)[n]) >= 3
              /\ LowerStr(Pieces(probe.result)[n]) \in probe.lexicon

\* a token with a capital has been split into five fragments
C30_Witness ==
    /\ probe.fn = "_split_merged_words"
    /\ IsToken
    /\ probe.result # probe.text
    /\ Len(Pieces(probe.result)) = 5
    /\ \E i \in 1..Len(probe.text) : probe.text[i] \in Upper
    /\ Concat(Pieces(probe.result)) = probe.text

(***************************************************************************)
(* Properties of the steps of process_text.                                *)
(***************************************************************************)
\* control is inside the while loop of a chunk whose result is not yet fixed:
\* at a process_chunk call, inside it, or at the sleep of line 92
InAttempt == {"call", "gen1", "gen2", "post", "sleep"}

\* C24: the running totals (input tokens, output tokens, cost) and the
\* accumulated applied-steps list change only after a chunk has fully
\* completed: between the first attempt on a chunk and the moment its final
\* result is fixed they keep the values they had when the chunk started.
\* The code adds to them when a process_chunk call returns, before its
\* result is validated.
C24_TotalsKeptWithinChunk ==
    [][(pc \in InAttempt /\ pc' \in InAttempt) =>
           /\ total_input_tokens' = total_input_tokens
           /\ total_output_tokens' = total_output_tokens
           /\ total_cost' = total_cost
           /\ applied_steps' = applied_steps]_vars

\* C25: a backoff sleep occurs exactly between a failed validation and the
\* re-attempt of the same chunk that follows it: a sleep is entered only from
\* a failed validation, every sleep is followed by another process_chunk call
\* on that chunk, and a re-attempt after an exception is not preceded by a
\* sleep.  The code also sleeps after the second failed validation, when the
\* loop ends.
C25_SleepBeforeRetry ==
    [][/\ (pc # "sleep" /\ pc' = "sleep") =>
              (pc = "post" /\ attempts'[Len(attempts')] = "invalid")
       /\ (pc = "sleep" /\ pc' # "sleep") => (pc' = "call" /\ idx' = idx)
       /\ (attempts' # attempts /\ attempts' # <<>>
             /\ attempts'[Len(attempts')] = "raised") => pc' # "sleep"]_vars

\* the step names the pre phase of the call on the current chunk records
PreNames ==
    IF config.llm_cleaning_disabled THEN <<>>
    ELSE ApplyDeterministicCleaning(Chunk, config.cleaning_options, "pre",
                                    LoadedLexicon).applied

\* the step names of the generation calls of one process_chunk call
LlmNames ==
    IF SpeakerEnabled(config.speaker_config) /\ config.single_pass
    THEN <<"llmSpeakerSinglePass">>
    ELSE IF SpeakerEnabled(config.speaker_config)
    THEN <<"llmCleaning", "llmSpeakerFormatting">>
    ELSE <<"llmCleaning">>

\* the post phase applied to the text generated last
PostCleaned ==
    ApplyDeterministicCleaning(gen_log[Len(gen_log)].answer[1],
                               config.cleaning_options, "post", LoadedLexicon)

\* C26: within one process_chunk call the stages occur in this order: the
\* credential check, the pre-phase cleaning (if and only if LLM cleaning is
\* not disabled), the first generation, the optional second generation, the
\* post-phase cleaning.  The post phase always runs, over the text generated
\* last; the text returned is its output trimmed; the applied steps returned
\* are the pre-phase names, then the LLM step names, then the post-phase names
C26_StageOrder ==
    [][/\ (pc # "gen1" /\ pc' = "gen1") =>
              /\ pc = "call"
              /\ ~(config.model_source = "api" /\ svc_client' = None)
              /\ gen_log' = <<>>
              /\ call'.text = PreCleanedText
              /\ call'.applied_steps = PreNames
       /\ (pc = "call" /\ config.model_source = "api" /\ svc_client' = None) =>
              (pc' # "gen1" /\ attempts'[Len(attempts')] = "raised")
       /\ (pc # "gen2" /\ pc' = "gen2") =>
              (pc = "gen1" /\ Len(gen_log') = 1 /\ gen_log'[1].answer # None)
       /\ (pc # "post" /\ pc' = "post") =>
              /\ pc \in {"gen1", "gen2"}
              /\ Len(gen_log') = Len(LlmNames)
              /\ gen_log'[Len(gen_log')].answer = Some(call'.generated)
       /\ (pc = "post" /\ pc' # "post") =>
              /\ processed_chunk' = Strip(PostCleaned.text)
              /\ applied_steps' =
                     applied_steps \o PreNames \o LlmNames \o PostCleaned.applied]_vars

\* a call with both generation stages has returned, and its applied steps
\* hold a pre-phase name before and a post-phase name after the LLM names
C26_Witness ==
    /\ pc = "append"
    /\ attempts = <<"valid">>
    /\ Len(gen_log) = 2
    /\ \E i \in 2..(Len(applied_steps) - 2) :
           /\ applied_steps[i] = "llmCleaning"
           /\ applied_steps[i + 1] = "llmSpeakerFormatting"

\* the number of snapshots handed to the callback so far
Invocations == IF progress = None THEN 0 ELSE progress[1].chunk_index + 1

\* C27: with a callback attached, process_text invokes it once per chunk, in
\* strictly increasing index order from 0, only after the chunk's final
\* result has been fixed and before any attempt on the next chunk, N times
\* by the time the summary is returned; the totals carried by successive
\* snapshots never decrease
C27_CallbackPerChunk ==
    [][on_progress # NoCallback =>
          /\ progress' # progress =>
                /\ pc = "append"
                /\ progress'[1].chunk_index = Invocations
                /\ progress'[1].chunk_index = idx
                /\ Len(final_results') = idx + 1
                /\ final_results'[idx + 1].text = progress'[1].processed_text
                /\ progress # None =>
                      /\ progress'[1].total_input_tokens >= progress[1].total_input_tokens
                      /\ progress'[1].total_output_tokens >= progress[1].total_output_tokens
                      /\ progress'[1].total_cost >= progress[1].total_cost
          /\ (pc = "append" /\ pc' # "append") => progress' # progress
          /\ pc' \in InAttempt => Invocations = idx'
          /\ pc' = "done" => Invocations = Len(chunks)]_vars

\* the callback has been given the snapshot of the second chunk, with larger
\* totals than the first one carried
C27_Witness ==
    /\ on_progress = "returns"
    /\ pc = "done"
    /\ Len(chunks) = 2
    /\ progress # None
    /\ progress[1].chunk_index = 1
    /\ progress[1].total_input_tokens > 0

\* the step is the end of a process_chunk call that raised
AttemptRaises ==
    /\ attempts' # attempts
    /\ attempts' # <<>>
    /\ attempts'[Len(attempts')] = "raised"

\* C28 as the specification states it: an attempt that raises leaves the
\* totals and the applied steps unchanged and adds one log line only
C28_RaisedAttemptOneLine ==
    [][AttemptRaises =>
          /\ total_input_tokens' = total_input_tokens
          /\ total_output_tokens' = total_output_tokens
          /\ total_cost' = total_cost
          /\ applied_steps' = applied_steps
          /\ Len(logs') = Len(logs) + 1]_vars

\* C28: a process_chunk attempt that raises, one whose first generation
\* succeeded and whose second raised included, leaves the totals and the
\* applied steps unchanged; it adds one log line for the exception, followed
\* by the chunk's fallback notice when it was the chunk's second failure
C28_RaisedAttemptContributesNothing ==
    [][AttemptRaises =>
          /\ total_input_tokens' = total_input_tokens
          /\ total_output_tokens' = total_output_tokens
          /\ total_cost' = total_cost
          /\ applied_steps' = applied_steps
          /\ Len(logs') = Len(logs) + (IF retry_count' >= 2 THEN 2 ELSE 1)
          /\ SubSeq(logs', 1, Len(logs)) = logs
          /\ logs'[Len(logs) + 1].kind = "error"
          /\ logs'[Len(logs) + 1].chunk = idx + 1
          /\ retry_count' >= 2 => logs'[Len(logs) + 2] = FallbackLine(idx)]_vars

\* the second generation of the first attempt on a chunk raised after the
\* first one had answered: one line is logged and nothing was counted
C28_Witness ==
    /\ attempts = <<"raised">>
    /\ Len(gen_log) = 2
    /\ gen_log[1].answer # None
    /\ gen_log[2].answer = None
    /\ Len(logs) = 1
    /\ total_input_tokens = 0
    /\ applied_steps = <<>>

\* C29: in every ProcessingProgress snapshot retry_count is 0, 1 or 2 and the
\* status is "success" if and only if retry_count is below 2; a success
\* snapshot carries a non-empty processed_text that passed validation against
\* its chunk, a failed snapshot has retry_count = 2
C29_SnapshotStatus ==
    progress # None =>
        /\ progress[1].retry_count \in {0, 1, 2}
        /\ progress[1].status \in {"success", "failed"}
        /\ progress[1].status = "success" <=> progress[1].retry_count < 2
        /\ progress[1].status = "success" =>
              /\ Strip(progress[1].processed_text) # <<>>
              /\ validate_output(chunks[progress[1].chunk_index + 1],
                                 progress[1].processed_text)
        /\ progress[1].status = "failed" => progress[1].retry_count = 2

\* a success snapshot after one failed attempt, in a run where a chunk ended
\* with an empty result
C29_Witness ==
    /\ progress # None
    /\ progress[1].status = "success"
    /\ progress[1].retry_count = 1
    /\ progress[1].processed_text # <<>>
    /\ \E k \in 1..Len(final_results) : final_results[k].text = <<>>

====
